---- MODULE Spec2Model ----
(***************************************************************************)
(* The auto-reply bot of src/main.go: the rule store (serverAutoReplies),  *)
(* its two mutators (addAutoReply, removeAutoReply), the /reply command    *)
(* handler, the matcher (containsWholeWord) and the message handler.       *)
(*                                                                         *)
(* Texts that the code folds, splits or trims (triggers, message content)  *)
(* are sequences of one-character strings.  The character "Idot" stands    *)
(* for U+0130 (capital I with dot above): Go's unicode.ToLower maps it to  *)
(* "i", while it has no simple case folding, so strings.EqualFold does not *)
(* equate it with "i" or "I".  Texts the code only stores, compares for    *)
(* equality or tests for emptiness (responses, user and guild IDs, the     *)
(* mode value) are plain strings.                                          *)
(*                                                                         *)
(* In Spec, SpecDisk and SpecLoad each action is one handler run from its  *)
(* first line to its return; SpecRace takes two handlers statement by      *)
(* statement.  The variable `out` holds what the handler that ran last     *)
(* handed to the platform.  The variable `session` is the platform        *)
(* session of SpecBuild: the handlers main registered and the event that   *)
(* waits to be dispatched.  The variable `autoReplies` is the rule list of *)
(* the global-scope variant of the bot (src/unnamed/part_000), used by     *)
(* SpecGlobal.                                                             *)
(***************************************************************************)
EXTENDS Integers, Sequences, FiniteSets, TLC

VARIABLES serverAutoReplies, file, out, probe, race, session, autoReplies

vars == <<serverAutoReplies, file, out, probe, race, session, autoReplies>>

----------------------------------------------------------------------------
(* Bounds *)

\* Longest message text given to the matcher on its own.
MaxTextLen == 4

\* Longest trigger given to the matcher on its own.
MaxTrigLen == 2

\* Most rules held in the store, all guilds together.
MaxRules == 2

----------------------------------------------------------------------------
(* Characters and the library string functions the code calls *)

\* unicode.IsSpace, on the characters of the model
IsSpace(c) == c = " "

\* the cutset of strings.Trim in containsWholeWord
Cutset == {".", ",", "!", "?", ";", ":", "\"", "'", "(", ")", "[", "]", "{", "}", "*"}

\* unicode.ToLower.  "Idot" is U+0130, whose lower case is "i"; "longs" is
\* U+017F, the long s, which has an upper case ("S") and no lower case of
\* its own.
ToLowerRune(c) ==
    CASE c = "I" -> "i"
      [] c = "O" -> "o"
      [] c = "S" -> "s"
      [] c = "Idot" -> "i"
      [] OTHER -> c

\* strings.ToLower
ToLower(s) == [k \in 1..Len(s) |-> ToLowerRune(s[k])]

\* the simple case folding strings.EqualFold compares runes under: U+0130
\* folds to nothing but itself, and the long s is in the orbit of "s"
EqualFoldRune(a, b) ==
    \/ a = b
    \/ {a, b} = {"i", "I"}
    \/ {a, b} = {"o", "O"}
    \/ {a, b} \subseteq {"s", "S", "longs"}

\* strings.EqualFold
EqualFold(s, t) ==
    /\ Len(s) = Len(t)
    /\ \A k \in 1..Len(s) : EqualFoldRune(s[k], t[k])

\* index of the first character of s, from position k on, that is not in
\* the set cs (Len(s)+1 when there is none)
RECURSIVE SkipLeft(_, _, _)
SkipLeft(s, k, cs) ==
    IF k > Len(s) \/ s[k] \notin cs THEN k ELSE SkipLeft(s, k + 1, cs)

\* index of the last character of s, up to position k, that is not in cs
\* (0 when there is none)
RECURSIVE SkipRight(_, _, _)
SkipRight(s, k, cs) ==
    IF k < 1 \/ s[k] \notin cs THEN k ELSE SkipRight(s, k - 1, cs)

\* strings.Trim(s, cutset)
Trim(s, cs) ==
    LET a == SkipLeft(s, 1, cs)
    IN  IF a > Len(s) THEN <<>> ELSE SubSeq(s, a, SkipRight(s, Len(s), cs))

\* strings.TrimSpace
TrimSpace(s) == Trim(s, {" "})

\* strings.Fields: the maximal runs of non-space characters, in order.
\* cur is the field being read, acc the fields already complete.
RECURSIVE FieldsFrom(_, _, _, _)
FieldsFrom(s, k, cur, acc) ==
    IF k > Len(s)
    THEN IF cur = <<>> THEN acc ELSE Append(acc, cur)
    ELSE IF IsSpace(s[k])
         THEN FieldsFrom(s, k + 1, <<>>, IF cur = <<>> THEN acc ELSE Append(acc, cur))
         ELSE FieldsFrom(s, k + 1, Append(cur, s[k]), acc)

Fields(s) == FieldsFrom(s, 1, <<>>, <<>>)

----------------------------------------------------------------------------
(* The matcher *)

\* The loop of containsWholeWord over words[k..]
RECURSIVE WordLoop(_, _, _)
WordLoop(words, k, trigger) ==
    IF k > Len(words)
    THEN FALSE
    ELSE LET cleanWord == Trim(words[k], Cutset)
         IN  IF cleanWord = trigger THEN TRUE ELSE WordLoop(words, k + 1, trigger)

\* Variant: plain substring containment, strings.Contains(message, trigger)
containsSubstring(message, trigger) ==
    \E a \in 1..Len(message) + 1 :
        /\ a + Len(trigger) - 1 <= Len(message)
        /\ SubSeq(message, a, a + Len(trigger) - 1) = trigger

containsWholeWord(message, trigger) == WordLoop(Fields(message), 1, trigger)

----------------------------------------------------------------------------
(* The rule store: a Go map from guild ID to a slice of AutoReply.  A guild *)
(* outside DOMAIN has no entry (its lookup is the nil slice).               *)

EmptyStore == [g \in {} |-> <<>>]

AutoReply(trigger, response, authorID) ==
    [Trigger |-> trigger, Response |-> response, AuthorID |-> authorID]

\* serverAutoReplies[guildID] = list
Put(store, guildID, list) ==
    [g \in DOMAIN store \cup {guildID} |-> IF g = guildID THEN list ELSE store[g]]

\* delete(serverAutoReplies, guildID)
Delete(store, guildID) == [g \in DOMAIN store \ {guildID} |-> store[g]]

\* serverAutoReplies[guildID], the nil slice read as the empty one
Lookup(store, guildID) == IF guildID \in DOMAIN store THEN store[guildID] ELSE <<>>

TotalRules(store) ==
    LET RECURSIVE Sum(_)
        Sum(gs) == IF gs = {} THEN 0
                   ELSE LET g == CHOOSE x \in gs : TRUE
                        IN  Len(store[g]) + Sum(gs \ {g})
    IN  Sum(DOMAIN store)

(* The messages addAutoReply and removeAutoReply return, as the pieces the  *)
(* code builds them from.                                                   *)
ConflictMsg(authorID) == <<"you can't change this you ", "bartard", " <@", authorID, ">">>
NotFoundMsg == <<"No auto-reply found for that trigger.">>
UpdatedMsg == <<"Auto-reply updated successfully!">>
CreatedMsg == <<"Auto-reply created successfully!">>
RemovedMsg == <<"Auto-reply removed successfully!">>

\* strings.Contains(message, piece), for a piece the message is built from
Contains(message, piece) == \E k \in 1..Len(message) : message[k] = piece

\* The loop header shared by addAutoReply and removeAutoReply: the index of
\* the first rule, from k on, whose trigger equals `trigger` under
\* strings.EqualFold; 0 when the loop runs to its end.
RECURSIVE FindTrigger(_, _, _)
FindTrigger(list, k, trigger) ==
    IF k > Len(list)
    THEN 0
    ELSE IF EqualFold(list[k].Trigger, trigger) THEN k
         ELSE FindTrigger(list, k + 1, trigger)

\* the ownership check of both mutators
NotAuthor(reply, authorID) == reply.AuthorID /= "" /\ reply.AuthorID /= authorID

\* The value a mutator returns, with the store it leaves and whether it
\* called saveAutoReplies.
Ret(ok, message, store, save) ==
    [ok |-> ok, message |-> message, store |-> store, save |-> save]

\* Variant: the trigger is trimmed of blanks and punctuation before it is
\* stored
addAutoReplyTrimmed(store, trigger, response, authorID, guildID) ==
    LET s1 == IF guildID \notin DOMAIN store THEN Put(store, guildID, <<>>) ELSE store
        i  == FindTrigger(s1[guildID], 1, trigger)
    IN  IF i > 0
        THEN IF NotAuthor(s1[guildID][i], authorID)
             THEN Ret(FALSE, ConflictMsg(authorID), s1, FALSE)
             ELSE Ret(TRUE, UpdatedMsg,
                      [s1 EXCEPT ![guildID][i].Response = response,
                                 ![guildID][i].AuthorID = authorID],
                      TRUE)
        ELSE Ret(TRUE, CreatedMsg,
                 [s1 EXCEPT ![guildID] =
                     Append(@, AutoReply(Trim(ToLower(trigger), Cutset \cup {" "}),
                                         response, authorID))],
                 TRUE)

\* Variant: a new rule goes to the front of the list
addAutoReplyPrepends(store, trigger, response, authorID, guildID) ==
    LET s1 == IF guildID \notin DOMAIN store THEN Put(store, guildID, <<>>) ELSE store
        i  == FindTrigger(s1[guildID], 1, trigger)
    IN  IF i > 0
        THEN IF NotAuthor(s1[guildID][i], authorID)
             THEN Ret(FALSE, ConflictMsg(authorID), s1, FALSE)
             ELSE Ret(TRUE, UpdatedMsg,
                      [s1 EXCEPT ![guildID][i].Response = response,
                                 ![guildID][i].AuthorID = authorID],
                      TRUE)
        ELSE Ret(TRUE, CreatedMsg,
                 [s1 EXCEPT ![guildID] =
                     <<AutoReply(ToLower(trigger), response, authorID)>> \o @],
                 TRUE)

addAutoReply(store, trigger, response, authorID, guildID) ==
    LET s1 == IF guildID \notin DOMAIN store THEN Put(store, guildID, <<>>) ELSE store
        i  == FindTrigger(s1[guildID], 1, trigger)
    IN  IF i > 0
        THEN IF NotAuthor(s1[guildID][i], authorID)
             THEN Ret(FALSE, ConflictMsg(authorID), s1, FALSE)
             ELSE Ret(TRUE, UpdatedMsg,
                      [s1 EXCEPT ![guildID][i].Response = response,
                                 ![guildID][i].AuthorID = authorID],
                      TRUE)
        ELSE Ret(TRUE, CreatedMsg,
                 [s1 EXCEPT ![guildID] =
                     Append(@, AutoReply(ToLower(trigger), response, authorID))],
                 TRUE)

\* Variant: the guild's entry stays when its last rule is removed
removeAutoReplyKeepsEntry(store, trigger, authorID, guildID) ==
    IF guildID \notin DOMAIN store
    THEN Ret(FALSE, NotFoundMsg, store, FALSE)
    ELSE LET list == store[guildID]
             i    == FindTrigger(list, 1, trigger)
         IN  IF i = 0
             THEN Ret(FALSE, NotFoundMsg, store, FALSE)
             ELSE IF NotAuthor(list[i], authorID)
             THEN Ret(FALSE, ConflictMsg(authorID), store, FALSE)
             ELSE LET rest == SubSeq(list, 1, i - 1) \o SubSeq(list, i + 1, Len(list))
                  IN  Ret(TRUE, RemovedMsg, [store EXCEPT ![guildID] = rest], TRUE)

\* Variant: saveAutoReplies is called on the way out of every path
removeAutoReplyAlwaysSaves(store, trigger, authorID, guildID) ==
    IF guildID \notin DOMAIN store
    THEN Ret(FALSE, NotFoundMsg, store, TRUE)
    ELSE LET list == store[guildID]
             i    == FindTrigger(list, 1, trigger)
         IN  IF i = 0
             THEN Ret(FALSE, NotFoundMsg, store, TRUE)
             ELSE IF NotAuthor(list[i], authorID)
             THEN Ret(FALSE, ConflictMsg(authorID), store, TRUE)
             ELSE LET rest == SubSeq(list, 1, i - 1) \o SubSeq(list, i + 1, Len(list))
                  IN  Ret(TRUE, RemovedMsg,
                          IF Len(rest) = 0 THEN Delete(store, guildID)
                                           ELSE [store EXCEPT ![guildID] = rest],
                          TRUE)

removeAutoReply(store, trigger, authorID, guildID) ==
    IF guildID \notin DOMAIN store
    THEN Ret(FALSE, NotFoundMsg, store, FALSE)
    ELSE LET list == store[guildID]
             i    == FindTrigger(list, 1, trigger)
         IN  IF i = 0
             THEN Ret(FALSE, NotFoundMsg, store, FALSE)
             ELSE IF NotAuthor(list[i], authorID)
             THEN Ret(FALSE, ConflictMsg(authorID), store, FALSE)
             ELSE LET rest == SubSeq(list, 1, i - 1) \o SubSeq(list, i + 1, Len(list))
                  IN  Ret(TRUE, RemovedMsg,
                          IF Len(rest) = 0 THEN Delete(store, guildID)
                                           ELSE [store EXCEPT ![guildID] = rest],
                          TRUE)

----------------------------------------------------------------------------
(* The persisted document *)

\* Variant: author_id is never written
MarshalRuleNoAuthor(r) == [trigger |-> r.Trigger, response |-> r.Response]

\* One AutoReply as json.Marshal writes it: author_id is left out when empty
MarshalRule(r) ==
    IF r.AuthorID = ""
    THEN [trigger |-> r.Trigger, response |-> r.Response]
    ELSE [trigger |-> r.Trigger, response |-> r.Response, author_id |-> r.AuthorID]

\* json.MarshalIndent(serverAutoReplies, "", "  ")
Marshal(store) ==
    [g \in DOMAIN store |-> [k \in 1..Len(store[g]) |-> MarshalRule(store[g][k])]]

NoFile == [kind |-> "absent", doc |-> EmptyStore]
Truncated == [kind |-> "truncated", doc |-> EmptyStore]
Document(doc) == [kind |-> "document", doc |-> doc]

\* What the disk does with one os.WriteFile
DiskOutcomes == {"written", "open fails", "write fails"}

\* Variant: a save that fails is made again until it is written
saveAutoRepliesRetry(store, old, disk) == Document(Marshal(store))

\* saveAutoReplies: the file it leaves.  The marshalling of a map of string
\* structs cannot fail; os.WriteFile truncates the file on opening it, so
\* a failure to open leaves the old file and a failure while writing
\* leaves a cut-off one.
saveAutoReplies(store, old, disk) ==
    CASE disk = "written"     -> Document(Marshal(store))
      [] disk = "open fails"  -> old
      [] disk = "write fails" -> Truncated

\* saveAutoReplies: the lines it logs
SaveErrorLog == <<"Error saving auto-replies">>
saveLog(disk) == IF disk = "written" THEN <<>> ELSE SaveErrorLog

\* One rule object of the document as json.Unmarshal reads it into an
\* AutoReply: a missing author_id leaves the field empty
UnmarshalRule(o) ==
    AutoReply(o.trigger, o.response, IF "author_id" \in DOMAIN o THEN o.author_id ELSE "")

\* json.Unmarshal of a document whose every value is a list of rule objects
Unmarshal(doc) ==
    [g \in DOMAIN doc |-> [k \in 1..Len(doc[g]) |-> UnmarshalRule(doc[g][k])]]

\* A file that exists and cannot be read
Unreadable == [kind |-> "unreadable", doc |-> EmptyStore]

\* A file of valid JSON, an object, in which the values of the keys `bad`
\* are not lists (a string, a number, an object); doc holds the other keys
Misshapen(doc, bad) == [kind |-> "misshapen", doc |-> doc, bad |-> bad]

ReadErrorLog == <<"Error reading auto-replies file">>
ParseErrorLog == <<"Error parsing auto-replies file">>
LoadedLog == <<"Loaded auto-reply rules">>

\* loadAutoReplies: the store it leaves and the line it logs.  The store
\* is made empty first.  json.Unmarshal checks the syntax of the whole
\* input before it stores anything; on a value of the wrong type it
\* records the error, sets the key to the zero value (the nil list), goes
\* on with the rest of the input and returns the error at the end.
loadAutoReplies(f) ==
    CASE f.kind = "absent"     -> [store |-> EmptyStore, log |-> <<>>]
      [] f.kind = "unreadable" -> [store |-> EmptyStore, log |-> ReadErrorLog]
      [] f.kind = "truncated"  -> [store |-> EmptyStore, log |-> ParseErrorLog]
      [] f.kind = "misshapen"  ->
            [store |-> [g \in DOMAIN f.doc \cup f.bad |->
                           IF g \in f.bad THEN <<>> ELSE Unmarshal(f.doc)[g]],
             log |-> ParseErrorLog]
      [] f.kind = "document"   -> [store |-> Unmarshal(f.doc), log |-> LoadedLog]

----------------------------------------------------------------------------
(* What a handler hands to the platform.  `out` holds the output of the    *)
(* handler that ran last: for handleReplyCommand the mutator it called     *)
(* (called, ok) and its InteractionRespond (Content, Embeds, Flags); for   *)
(* messageCreate the message it was given (Bot, GuildID, Text) and the     *)
(* messages it sent (Sends) and the number of rules it gave to             *)
(* containsWholeWord (Compared).  GuildID is the guild of the interaction  *)
(* or of the message.  Log holds the lines the run wrote with log.Printf   *)
(* about the file.                                                         *)

NoOut ==
    [handler |-> "none", called |-> "none", ok |-> FALSE,
     Content |-> <<>>, Embeds |-> <<>>, Flags |-> {},
     Bot |-> FALSE, GuildID |-> "", Text |-> <<>>, Sends |-> <<>>,
     Compared |-> 0, Log |-> <<>>]

Responded(guildID, called, ok, content, embeds, flags) ==
    [NoOut EXCEPT !.handler = "handleReplyCommand", !.GuildID = guildID,
                  !.called = called, !.ok = ok,
                  !.Content = content, !.Embeds = embeds, !.Flags = flags]

Delivered(bot, guildID, text, sends) ==
    [NoOut EXCEPT !.handler = "messageCreate", !.Bot = bot, !.GuildID = guildID,
                  !.Text = text, !.Sends = sends]

Started(log) == [NoOut EXCEPT !.handler = "loadAutoReplies", !.Log = log]

\* discordgo.MessageFlagsEphemeral; flags = 0 is the empty set
Ephemeral == {"Ephemeral"}

DMOnlyContent == <<"X ", "Auto-reply commands only work in servers, not in DMs!">>
NoResponseContent == <<"X ", "Please provide a response message!">>

\* The embed of a successful add: its description shows the trigger and the
\* response as the user gave them
SetUpEmbed(trigger, response) ==
    [Title |-> "Auto-Reply Set Up Successfully!", Trigger |-> trigger, Response |-> response]

\* One option of the command as the platform sends it
Option(name, value) == [Name |-> name, Value |-> value]

\* ApplicationCommandInteractionDataOption.StringValue
StringValue(option) == option.Value

\* strings.ToLower on the mode value
LowerWord(w) ==
    CASE w = "REMOVE" -> "remove"
      [] w = "ADD"    -> "add"
      [] OTHER        -> w

\* handleReplyCommand, remove branch: the content it responds with
removeContent(success, message) ==
    IF success THEN <<"OK ">> \o message
    ELSE IF Contains(message, "bartard") THEN message
    ELSE <<"X ">> \o message

\* Variant: the remove branch never looks at the message
removeFlagsPrivate(success, message) == Ephemeral

\* handleReplyCommand, remove branch: the flags it responds with
removeFlags(success, message) ==
    IF ~success /\ Contains(message, "bartard") THEN {} ELSE Ephemeral

\* handleReplyCommand, failed add: the content it responds with
addFailContent(message) ==
    IF Contains(message, "bartard") THEN message ELSE <<"X ">> \o message

\* handleReplyCommand, failed add: the flags it responds with
addFailFlags(message) ==
    IF Contains(message, "bartard") THEN {} ELSE Ephemeral

\* options[1].StringValue() when a second option was sent
optResponse(options) == IF Len(options) > 1 THEN StringValue(options[2]) ELSE ""

\* options[2].StringValue() when a third option was sent
optMode(options) == IF Len(options) > 2 THEN StringValue(options[3]) ELSE "add"

(* handleReplyCommand.  `options` are the options the user filled in, in   *)
(* the order the platform sends them; the handler reads them by position.  *)
(* `disk` is what the disk does if the handler saves.                      *)
HandleReplyCommand(guildID, userID, options, disk) ==
    LET trigger  == StringValue(options[1])
        response == optResponse(options)
        mode     == optMode(options)
    IN  /\ IF guildID = ""
           THEN /\ out' = Responded(guildID, "none", FALSE, DMOnlyContent, <<>>, Ephemeral)
                /\ UNCHANGED <<serverAutoReplies, file>>
           ELSE IF LowerWord(mode) = "remove"
           THEN LET r == removeAutoReply(serverAutoReplies, trigger, userID, guildID)
                IN  /\ serverAutoReplies' = r.store
                    /\ file' = IF r.save THEN saveAutoReplies(r.store, file, disk) ELSE file
                    /\ out' = [Responded(guildID, "removeAutoReply", r.ok,
                                         removeContent(r.ok, r.message), <<>>,
                                         removeFlags(r.ok, r.message))
                                  EXCEPT !.Log = IF r.save THEN saveLog(disk) ELSE <<>>]
           ELSE IF response = ""
           THEN /\ out' = Responded(guildID, "none", FALSE, NoResponseContent, <<>>, Ephemeral)
                /\ UNCHANGED <<serverAutoReplies, file>>
           ELSE LET r == addAutoReply(serverAutoReplies, trigger, response, userID, guildID)
                IN  /\ TotalRules(r.store) <= MaxRules
                    /\ serverAutoReplies' = r.store
                    /\ file' = IF r.save THEN saveAutoReplies(r.store, file, disk) ELSE file
                    /\ out' = [(IF r.ok
                                THEN Responded(guildID, "addAutoReply", TRUE, <<>>,
                                               <<SetUpEmbed(trigger, response)>>, Ephemeral)
                                ELSE Responded(guildID, "addAutoReply", FALSE,
                                               addFailContent(r.message), <<>>,
                                               addFailFlags(r.message)))
                                  EXCEPT !.Log = IF r.save THEN saveLog(disk) ELSE <<>>]
        /\ UNCHANGED <<probe, race, session, autoReplies>>

\* One call of the platform's send functions
Send(call, text) == [call |-> call, text |-> text]

\* What messageCreate sends for the rule it applies: the reply with a
\* message reference and, when that fails, the plain message
sendsFor(reply, replyFails) ==
    <<Send("ChannelMessageSendReply", reply.Response)>>
        \o (IF replyFails THEN <<Send("ChannelMessageSend", reply.Response)>> ELSE <<>>)

\* Variant: the loop without its break
RECURSIVE replyLoopNoBreak(_, _, _, _)
replyLoopNoBreak(serverReplies, k, messageContent, replyFails) ==
    IF k > Len(serverReplies)
    THEN <<>>
    ELSE IF containsWholeWord(messageContent, serverReplies[k].Trigger)
         THEN sendsFor(serverReplies[k], replyFails)
                  \o replyLoopNoBreak(serverReplies, k + 1, messageContent, replyFails)
         ELSE replyLoopNoBreak(serverReplies, k + 1, messageContent, replyFails)

\* The loop of messageCreate over serverReplies[k..]: it breaks at its
\* first hit
RECURSIVE replyLoop(_, _, _, _)
replyLoop(serverReplies, k, messageContent, replyFails) ==
    IF k > Len(serverReplies)
    THEN <<>>
    ELSE IF containsWholeWord(messageContent, serverReplies[k].Trigger)
         THEN sendsFor(serverReplies[k], replyFails)
         ELSE replyLoop(serverReplies, k + 1, messageContent, replyFails)

\* The loop of messageCreate over serverReplies[k..]: the number of rules
\* it gives to containsWholeWord
RECURSIVE replyCompared(_, _, _)
replyCompared(serverReplies, k, messageContent) ==
    IF k > Len(serverReplies)
    THEN 0
    ELSE IF containsWholeWord(messageContent, serverReplies[k].Trigger)
         THEN 1
         ELSE 1 + replyCompared(serverReplies, k + 1, messageContent)

\* messageCreate: the number of rules it gives to containsWholeWord
messageCompared(store, bot, guildID, content) ==
    LET serverReplies  == Lookup(store, guildID)
        messageContent == ToLower(TrimSpace(content))
    IN  IF bot THEN 0
        ELSE IF guildID = "" THEN 0
        ELSE IF Len(serverReplies) = 0 THEN 0
        ELSE IF messageContent = <<>> THEN 0
        ELSE replyCompared(serverReplies, 1, messageContent)

\* Variant: messages of bots are answered like those of users
messageSendsToBots(store, bot, guildID, content, replyFails) ==
    LET serverReplies  == Lookup(store, guildID)
        messageContent == ToLower(TrimSpace(content))
    IN  IF guildID = "" THEN <<>>
        ELSE IF Len(serverReplies) = 0 THEN <<>>
        ELSE IF messageContent = <<>> THEN <<>>
        ELSE replyLoop(serverReplies, 1, messageContent, replyFails)

\* Variant: the rules of one guild answer the messages of all guilds
messageSendsFirstGuild(store, bot, guildID, content, replyFails) ==
    LET serverReplies  == Lookup(store, "g1")
        messageContent == ToLower(TrimSpace(content))
    IN  IF bot THEN <<>>
        ELSE IF guildID = "" THEN <<>>
        ELSE IF Len(serverReplies) = 0 THEN <<>>
        ELSE IF messageContent = <<>> THEN <<>>
        ELSE replyLoop(serverReplies, 1, messageContent, replyFails)

\* messageCreate: the messages it sends
messageSends(store, bot, guildID, content, replyFails) ==
    LET serverReplies  == Lookup(store, guildID)
        messageContent == ToLower(TrimSpace(content))
    IN  IF bot THEN <<>>
        ELSE IF guildID = "" THEN <<>>
        ELSE IF Len(serverReplies) = 0 THEN <<>>
        ELSE IF messageContent = <<>> THEN <<>>
        ELSE replyLoop(serverReplies, 1, messageContent, replyFails)

\* messageCreate: what it hands to the platform
messageOut(store, bot, guildID, content, replyFails) ==
    [Delivered(bot, guildID, content, messageSends(store, bot, guildID, content, replyFails))
        EXCEPT !.Compared = messageCompared(store, bot, guildID, content)]

MessageCreate(bot, guildID, content, replyFails) ==
    /\ out' = messageOut(serverAutoReplies, bot, guildID, content, replyFails)
    /\ UNCHANGED <<serverAutoReplies, file, probe, race, session, autoReplies>>

----------------------------------------------------------------------------
(* The bot in one guild: commands and messages arrive in any order, and    *)
(* the disk works.                                                         *)

Guilds == {"g1"}

\* a guild ID, or "" for a direct message
GuildIDs == Guilds \cup {""}

\* the invoking user's ID; "" when the interaction names neither a member
\* nor a user
UserIDs == {"", "u1", "u2"}

TriggerInputs == {<<"I">>, <<"Idot">>, <<"o">>}

ResponseInputs == {"hey"}

\* the choices the command is registered with
ModeInputs == {"add", "remove"}

\* The options of one /reply command: the trigger is required, the
\* response and the mode are sent only when the user filled them in.
OptionListsOf(triggers, responses, modes) ==
    LET T == {Option("trigger", t) : t \in triggers}
        R == {Option("response", r) : r \in responses}
        M == {Option("mode", m) : m \in modes}
    IN  {<<t>> : t \in T}
            \cup {<<t, r>> : t \in T, r \in R}
            \cup {<<t, m>> : t \in T, m \in M}
            \cup {<<t, r, m>> : t \in T, r \in R, m \in M}

OptionLists == OptionListsOf(TriggerInputs, ResponseInputs, ModeInputs)

Contents == {<<"I">>, <<"o", " ", "i", "!">>, <<" ">>, <<"i", "o">>}

\* the text of the messages that messageCreate drops before any lookup
DroppedContents == {<<"o", " ", "i", "!">>}

NoProbe == [text |-> <<>>, trigger |-> <<>>, done |-> FALSE, result |-> FALSE]

\* no session opened
NoSession == [build |-> "", handlers |-> {}, pending |-> <<>>]

\* no handlers in flight
NoRace ==
    [mem |-> [arrays |-> <<>>, map |-> EmptyStore], procs |-> <<>>,
     start |-> EmptyStore, fault |-> "none"]

Init ==
    /\ serverAutoReplies = EmptyStore
    /\ file = NoFile
    /\ out = NoOut
    /\ probe = NoProbe
    /\ race = NoRace
    /\ session = NoSession
    /\ autoReplies = <<>>

\* the option lists that name a response, and those that do not
WithResponse == {options \in OptionLists : Len(options) > 1 /\ options[2].Name = "response"}
Bare == OptionLists \ WithResponse

\* a /reply command in a guild, filled in with a response
Command ==
    \E guildID \in Guilds, userID \in UserIDs, options \in WithResponse :
        HandleReplyCommand(guildID, userID, options, "written")

\* a /reply command in a guild with the response left out
BareCommand ==
    \E guildID \in Guilds, options \in Bare :
        HandleReplyCommand(guildID, "u1", options, "written")

\* a /reply command in a direct message
DirectCommand ==
    \E options \in OptionListsOf({<<"o">>}, {"hey"}, {"remove"}) :
        HandleReplyCommand("", "u1", options, "written")

\* a user's message in a guild
Message ==
    \E guildID \in Guilds, content \in Contents, replyFails \in BOOLEAN :
        MessageCreate(FALSE, guildID, content, replyFails)

\* a bot's message in a guild
BotMessage ==
    \E guildID \in Guilds, content \in DroppedContents :
        MessageCreate(TRUE, guildID, content, FALSE)

\* a user's direct message
DirectMessage ==
    \E content \in DroppedContents : MessageCreate(FALSE, "", content, FALSE)

Next == Command \/ BareCommand \/ DirectCommand \/ Message \/ BotMessage \/ DirectMessage

Spec == Init /\ [][Next]_vars

----------------------------------------------------------------------------
(* The bot with a disk that may fail: two users manage two triggers, and   *)
(* each save is written, fails on opening the file or fails while writing. *)

DiskOptionLists == OptionListsOf({<<"I">>, <<"o">>}, {"hey"}, {"remove"})

DiskCommand ==
    \E userID \in {"u1", "u2"}, options \in DiskOptionLists, disk \in DiskOutcomes :
        HandleReplyCommand("g1", userID, options, disk)

SpecDisk == Init /\ [][DiskCommand]_vars

----------------------------------------------------------------------------
(* The process from start to stop and start again: it finds a file, loads  *)
(* it, serves commands of one user in one guild with a disk that may fail, *)
(* and stops; its memory is gone and the file stays.                       *)

\* a store with one rule
OneRule(guildID, trigger, response, authorID) ==
    Put(EmptyStore, guildID, <<AutoReply(trigger, response, authorID)>>)

\* The files the process may find: none, one it cannot read, a cut-off
\* one, one an earlier run wrote, one written by hand with a trigger in
\* upper case, and one in which the value of guild g2 is not a list.
FileInputs ==
    {NoFile, Unreadable, Truncated,
     Document(Marshal(OneRule("g1", <<"i">>, "hey", ""))),
     Document(Marshal(OneRule("g1", <<"I">>, "hey", ""))),
     Misshapen(Marshal(OneRule("g1", <<"o">>, "hey", "u2")), {"g2"})}

InitLoad ==
    /\ serverAutoReplies = EmptyStore
    /\ file \in FileInputs
    /\ out = NoOut
    /\ probe = NoProbe
    /\ race = NoRace
    /\ session = NoSession
    /\ autoReplies = <<>>

\* main, up to the call of loadAutoReplies
Load ==
    /\ out.handler = "none"
    /\ serverAutoReplies' = loadAutoReplies(file).store
    /\ out' = Started(loadAutoReplies(file).log)
    /\ UNCHANGED <<file, probe, race, session, autoReplies>>

\* a /reply command while the process runs
LoadCommand ==
    /\ out.handler /= "none"
    /\ \E options \in DiskOptionLists, disk \in DiskOutcomes :
          HandleReplyCommand("g1", "u1", options, disk)

\* main returns on a signal
Stop ==
    /\ out.handler /= "none"
    /\ serverAutoReplies' = EmptyStore
    /\ out' = NoOut
    /\ UNCHANGED <<file, probe, race, session, autoReplies>>

NextLoad == Load \/ LoadCommand \/ Stop

SpecLoad == InitLoad /\ [][NextLoad]_vars

----------------------------------------------------------------------------
(* One user in one guild with triggers of every shape: a word, a phrase of *)
(* two words, a word with punctuation at its end, the empty trigger, and a *)
(* letter that strings.ToLower leaves alone (the long s).                  *)

WordTriggers == {<<"i">>, <<"i", " ", "o">>, <<"o", "!">>, <<>>, <<"longs">>}

\* option lists that name a response: an add, or a remove with a response
WordOptionLists ==
    {options \in OptionListsOf(WordTriggers, {"hey", "yo"}, {"remove"}) :
        Len(options) > 1 /\ options[2].Name = "response"}

WordContents ==
    {<<"i", " ", "o">>, <<"o", "!">>, <<"!">>, <<"i">>, <<"o", " ", "!">>, <<"S">>}

WordsCommand ==
    \E options \in WordOptionLists : HandleReplyCommand("g1", "u1", options, "written")

WordsMessage ==
    \E content \in WordContents : MessageCreate(FALSE, "g1", content, FALSE)

NextWords == WordsCommand \/ WordsMessage

SpecWords == Init /\ [][NextWords]_vars

----------------------------------------------------------------------------
(* The bot in two guilds: two users manage the same two triggers in both,  *)
(* and messages arrive in both.                                            *)

GuildPair == {"g1", "g2"}

PairOptionLists ==
    {options \in OptionListsOf({<<"o">>, <<"i">>}, {"hey", "yo"}, {"remove"}) :
        Len(options) > 1 /\ options[2].Name = "response"}

PairCommand ==
    \E guildID \in GuildPair, userID \in {"u1", "u2"}, options \in PairOptionLists :
        HandleReplyCommand(guildID, userID, options, "written")

PairMessage ==
    \E guildID \in GuildPair, content \in {<<"o">>, <<"i", " ", "o">>} :
        MessageCreate(FALSE, guildID, content, FALSE)

NextGuilds == PairCommand \/ PairMessage

SpecGuilds == Init /\ [][NextGuilds]_vars

----------------------------------------------------------------------------
(* The server-scoped builds of the bot behind the platform session.  main  *)
(* registers its handlers with session.AddHandler; the session calls, for  *)
(* each event it receives, the handlers registered for it, and an event    *)
(* with no handler is discarded.  src/main.go registers ready,             *)
(* messageCreate and interactionCreate; the server-scoped file of          *)
(* src/unnamed/part_000 has the same messageCreate and registers only      *)
(* ready and interactionCreate.                                            *)

Builds == {"main.go", "part_000"}

\* the handlers main registers
Registered(build) ==
    IF build = "main.go"
    THEN {"ready", "messageCreate", "interactionCreate"}
    ELSE {"ready", "interactionCreate"}

\* a MessageCreate event of a user in the guild g1
MessageEvent(content) == [GuildID |-> "g1", Content |-> content]

BuildContents == {<<"o">>, <<"i", " ", "o">>, <<" ">>}

BuildOptionLists ==
    {options \in OptionListsOf({<<"o">>, <<"i">>}, {"hey", "yo"}, {"remove"}) :
        Len(options) > 1 /\ options[2].Name = "response"}

InitBuild ==
    /\ serverAutoReplies = EmptyStore
    /\ file = NoFile
    /\ out = NoOut
    /\ probe = NoProbe
    /\ race = NoRace
    /\ autoReplies = <<>>
    /\ \E build \in Builds :
          session = [build |-> build, handlers |-> Registered(build), pending |-> <<>>]

\* a user posts a message in the guild: the session receives the event
Post ==
    /\ session.pending = <<>>
    /\ \E content \in BuildContents :
          session' = [session EXCEPT !.pending = <<MessageEvent(content)>>]
    /\ UNCHANGED <<serverAutoReplies, file, out, probe, race, autoReplies>>

\* the session calls messageCreate for the event
Dispatch ==
    /\ session.pending /= <<>>
    /\ "messageCreate" \in session.handlers
    /\ out' = messageOut(serverAutoReplies, FALSE, session.pending[1].GuildID,
                         session.pending[1].Content, FALSE)
    /\ session' = [session EXCEPT !.pending = <<>>]
    /\ UNCHANGED <<serverAutoReplies, file, probe, race, autoReplies>>

\* the session has no handler for the event
Drop ==
    /\ session.pending /= <<>>
    /\ "messageCreate" \notin session.handlers
    /\ session' = [session EXCEPT !.pending = <<>>]
    /\ UNCHANGED <<serverAutoReplies, file, out, probe, race, autoReplies>>

\* the session calls interactionCreate for a /reply command
BuildCommand ==
    /\ "interactionCreate" \in session.handlers
    /\ \E options \in BuildOptionLists : HandleReplyCommand("g1", "u1", options, "written")

NextBuild == Post \/ Dispatch \/ Drop \/ BuildCommand

SpecBuild == InitBuild /\ [][NextBuild]_vars

\* The session leaves no event waiting: it calls the handlers, or discards
\* the event, for every event it received.
SpecBuildFair == SpecBuild /\ WF_vars(Dispatch) /\ WF_vars(Drop)

----------------------------------------------------------------------------
(* The global-scope variant of the bot (the second file of                 *)
(* src/unnamed/part_000): one rule list, autoReplies, for all guilds and   *)
(* direct messages.  Its handlers take no guild into account and its       *)
(* matcher is strings.Contains.                                            *)

\* strings.Contains(s, substr)
stringsContains(s, substr) ==
    \E a \in 1..Len(s) + 1 :
        /\ a + Len(substr) - 1 <= Len(s)
        /\ SubSeq(s, a, a + Len(substr) - 1) = substr

\* addAutoReply of the variant; the field `store` of what it returns is
\* the rule list it leaves
addAutoReplyGlobal(list, trigger, response, authorID) ==
    LET i == FindTrigger(list, 1, trigger)
    IN  IF i > 0
        THEN IF NotAuthor(list[i], authorID)
             THEN Ret(FALSE, ConflictMsg(authorID), list, FALSE)
             ELSE Ret(TRUE, UpdatedMsg,
                      [list EXCEPT ![i].Response = response, ![i].AuthorID = authorID],
                      TRUE)
        ELSE Ret(TRUE, CreatedMsg,
                 Append(list, AutoReply(ToLower(trigger), response, authorID)),
                 TRUE)

\* removeAutoReply of the variant
removeAutoReplyGlobal(list, trigger, authorID) ==
    LET i == FindTrigger(list, 1, trigger)
    IN  IF i = 0
        THEN Ret(FALSE, NotFoundMsg, list, FALSE)
        ELSE IF NotAuthor(list[i], authorID)
        THEN Ret(FALSE, ConflictMsg(authorID), list, FALSE)
        ELSE Ret(TRUE, RemovedMsg,
                 SubSeq(list, 1, i - 1) \o SubSeq(list, i + 1, Len(list)),
                 TRUE)

\* json.MarshalIndent(autoReplies, "", "  ")
MarshalList(list) == [k \in 1..Len(list) |-> MarshalRule(list[k])]

\* handleReplyCommand of the variant: it has no check of the guild
HandleReplyCommandGlobal(guildID, userID, options) ==
    LET trigger  == StringValue(options[1])
        response == optResponse(options)
        mode     == optMode(options)
    IN  /\ IF LowerWord(mode) = "remove"
           THEN LET r == removeAutoReplyGlobal(autoReplies, trigger, userID)
                IN  /\ autoReplies' = r.store
                    /\ file' = IF r.save THEN Document(MarshalList(r.store)) ELSE file
                    /\ out' = Responded(guildID, "removeAutoReply", r.ok,
                                        removeContent(r.ok, r.message), <<>>,
                                        removeFlags(r.ok, r.message))
           ELSE IF response = ""
           THEN /\ out' = Responded(guildID, "none", FALSE, NoResponseContent, <<>>, Ephemeral)
                /\ UNCHANGED <<autoReplies, file>>
           ELSE LET r == addAutoReplyGlobal(autoReplies, trigger, response, userID)
                IN  /\ Len(r.store) <= MaxRules
                    /\ autoReplies' = r.store
                    /\ file' = IF r.save THEN Document(MarshalList(r.store)) ELSE file
                    /\ out' = IF r.ok
                              THEN Responded(guildID, "addAutoReply", TRUE, <<>>,
                                             <<SetUpEmbed(trigger, response)>>, Ephemeral)
                              ELSE Responded(guildID, "addAutoReply", FALSE,
                                             addFailContent(r.message), <<>>,
                                             addFailFlags(r.message))
        /\ UNCHANGED <<serverAutoReplies, probe, race, session>>

\* Variant: the matcher of the server-scoped bot in the global one
replyIndexWholeWord(list, k, messageContent) ==
    LET hits == {n \in k..Len(list) : containsWholeWord(messageContent, list[n].Trigger)}
    IN  IF hits = {} THEN 0 ELSE CHOOSE n \in hits : \A m \in hits : n <= m

\* The loop of the variant's messageCreate over autoReplies[k..]: the
\* index of the first rule whose trigger the content contains, 0 when the
\* loop runs to its end
RECURSIVE replyIndexGlobal(_, _, _)
replyIndexGlobal(list, k, messageContent) ==
    IF k > Len(list)
    THEN 0
    ELSE IF stringsContains(messageContent, list[k].Trigger)
         THEN k
         ELSE replyIndexGlobal(list, k + 1, messageContent)

\* messageCreate of the variant: the index of the rule it applies, 0 when
\* it applies none
messageIndexGlobal(list, bot, content) ==
    LET messageContent == ToLower(TrimSpace(content))
    IN  IF bot THEN 0
        ELSE IF Len(list) = 0 THEN 0
        ELSE IF messageContent = <<>> THEN 0
        ELSE replyIndexGlobal(list, 1, messageContent)

\* messageCreate of the variant: what it hands to the platform
messageOutGlobal(list, bot, guildID, content, replyFails) ==
    LET i == messageIndexGlobal(list, bot, content)
        scanned == ~bot /\ Len(list) > 0 /\ ToLower(TrimSpace(content)) /= <<>>
    IN  [Delivered(bot, guildID, content,
                   IF i = 0 THEN <<>> ELSE sendsFor(list[i], replyFails))
            EXCEPT !.Compared = IF i > 0 THEN i ELSE IF scanned THEN Len(list) ELSE 0]

MessageCreateGlobal(bot, guildID, content, replyFails) ==
    /\ out' = messageOutGlobal(autoReplies, bot, guildID, content, replyFails)
    /\ UNCHANGED <<serverAutoReplies, file, probe, race, session, autoReplies>>

GlobalOptionLists ==
    {options \in OptionListsOf({<<"o">>, <<"I">>}, {"hey", "yo"}, {"remove"}) :
        Len(options) > 1 /\ options[2].Name = "response"}

GlobalContents == {<<"i", "o">>, <<"O">>, <<" ">>, <<"i", "!">>}

\* a /reply command: u1 sends it in a direct message, u2 in the guild g1
GlobalCommand ==
    \E who \in {<<"", "u1">>, <<"g1", "u2">>}, options \in GlobalOptionLists :
        HandleReplyCommandGlobal(who[1], who[2], options)

\* a user's message in the guild g2 or in a direct message
GlobalMessage ==
    \E guildID \in {"g2", ""}, content \in GlobalContents, replyFails \in BOOLEAN :
        MessageCreateGlobal(FALSE, guildID, content, replyFails)

\* a bot's message
GlobalBotMessage == MessageCreateGlobal(TRUE, "g2", <<"i", "o">>, FALSE)

NextGlobal == GlobalCommand \/ GlobalMessage \/ GlobalBotMessage

SpecGlobal == Init /\ [][NextGlobal]_vars

----------------------------------------------------------------------------
(* The matcher on its own: one text and one trigger, then the call.        *)

MatchAlphabet == {"i", "o", "!", " "}

SeqsUpTo(A, n) == UNION {[1..k -> A] : k \in 0..n}

InitMatch ==
    /\ serverAutoReplies = EmptyStore
    /\ file = NoFile
    /\ out = NoOut
    /\ race = NoRace
    /\ session = NoSession
    /\ autoReplies = <<>>
    /\ \E text \in SeqsUpTo(MatchAlphabet, MaxTextLen),
          trigger \in SeqsUpTo(MatchAlphabet, MaxTrigLen) :
            probe = [text |-> text, trigger |-> trigger, done |-> FALSE, result |-> FALSE]

Match ==
    /\ ~probe.done
    /\ probe' = [probe EXCEPT !.done = TRUE,
                              !.result = containsWholeWord(probe.text, probe.trigger)]
    /\ UNCHANGED <<serverAutoReplies, file, out, race, session, autoReplies>>

SpecMatch == InitMatch /\ [][Match]_vars

----------------------------------------------------------------------------
(* Two handlers in flight at once.  The session calls each handler in a    *)
(* goroutine of its own, and the code takes no lock, so the statements of  *)
(* two handlers interleave.  Memory is what Go gives the code: the map     *)
(* holds, per guild, a slice header (backing array, length); arrays hold   *)
(* the rules.  A step is one statement of addAutoReply, removeAutoReply or *)
(* messageCreate; an assignment to the map is two steps, its start and its *)
(* end; a save is two steps, the marshalling and the write.  The runtime   *)
(* may stop the process when it sees the map written while another         *)
(* goroutine uses it; an index or slice bound beyond the length stops it   *)
(* always.  A rule is read and written in one step.                        *)

Procs == {1, 2}

RaceGuild == "g1"

\* the nil slice: what the map gives for a key it does not hold
Nil == [arr |-> 0, len |-> 0]

\* serverAutoReplies[guildID]
MapRead(mem, guildID) == IF guildID \in DOMAIN mem.map THEN mem.map[guildID] ELSE Nil

\* the rules a slice header denotes
Slice(mem, h) == IF h.arr = 0 THEN <<>> ELSE SubSeq(mem.arrays[h.arr], 1, h.len)

\* the store as the map and the arrays hold it
View(mem) == [g \in DOMAIN mem.map |-> Slice(mem, mem.map[g])]

\* memory that holds a store of the one guild
MemOf(store) ==
    IF RaceGuild \in DOMAIN store
    THEN [arrays |-> <<store[RaceGuild]>>,
          map |-> [g \in {RaceGuild} |-> [arr |-> 1, len |-> Len(store[RaceGuild])]]]
    ELSE [arrays |-> <<>>, map |-> EmptyStore]

AddCall(trigger, response, userID) ==
    [kind |-> "add", trigger |-> trigger, response |-> response, userID |-> userID]
RemoveCall(trigger, userID) ==
    [kind |-> "remove", trigger |-> trigger, response |-> "", userID |-> userID]
MessageCall(content) ==
    [kind |-> "message", trigger |-> content, response |-> "", userID |-> ""]

\* the first statement of each handler's work on the store
Entry(call) ==
    CASE call.kind = "add"     -> "159"
      [] call.kind = "remove"  -> "190"
      [] call.kind = "message" -> "609"

\* A handler in flight: its call, the line it is at, its locals (the slice
\* header h it ranges over, the index i, the header it is assigning and
\* whether it deletes the key, the line after the assignment, the data
\* saveAutoReplies has marshalled), the rules a message scan has read, and
\* what it returns or sends.
NewProc(call) ==
    [call |-> call, pc |-> Entry(call), h |-> Nil, i |-> 0,
     new |-> Nil, del |-> FALSE, next |-> "", data |-> EmptyStore,
     seen |-> <<>>, ok |-> FALSE, message |-> <<>>, sends |-> <<>>]

TwoRules ==
    Put(EmptyStore, RaceGuild,
        <<AutoReply(<<"i">>, "hey", "u1"), AutoReply(<<"o">>, "hey", "")>>)

RaceStores == {EmptyStore, TwoRules}

RaceCalls ==
    {AddCall(<<"o">>, "new", "u1"), AddCall(<<"i">>, "new", "u2"),
     RemoveCall(<<"i">>, "u1"), RemoveCall(<<"o">>, "u2"),
     MessageCall(<<"o">>), MessageCall(<<"i", "o">>)}

InitRace ==
    /\ \E store \in RaceStores, calls \in [Procs -> RaceCalls] :
          /\ serverAutoReplies = store
          /\ race = [mem |-> MemOf(store),
                     procs |-> [p \in Procs |-> NewProc(calls[p])],
                     start |-> store, fault |-> "none"]
    /\ file = NoFile
    /\ out = NoOut
    /\ probe = NoProbe
    /\ session = NoSession
    /\ autoReplies = <<>>

\* the handler p is between the start and the end of an assignment to the map
Writing(p) == race.procs[p].pc = "assign"

\* the lines whose statement reads the map
MapReadingLines == {"159", "164", "171", "172", "179", "190", "194", "202", "205", "save", "609"}

\* p is about to run the statement at `line`
At(p, line) == race.fault = "none" /\ race.procs[p].pc = line

\* The step of p leaves memory mem and p's record proc; the store follows
\* memory.
Becomes(p, mem, proc) ==
    /\ race' = [race EXCEPT !.mem = mem, !.procs[p] = proc]
    /\ serverAutoReplies' = View(mem)

\* The step of p stops the process
Panics(fault) ==
    /\ race' = [race EXCEPT !.fault = fault]
    /\ UNCHANGED serverAutoReplies

\* addAutoReply, the nil check and the make
AddInit(p) ==
    LET P == race.procs[p]
        mem == race.mem
    IN  /\ At(p, "159")
        /\ IF MapRead(mem, RaceGuild) = Nil
           THEN Becomes(p, [mem EXCEPT !.arrays = Append(@, <<>>)],
                        [P EXCEPT !.pc = "assign", !.next = "164", !.del = FALSE,
                                  !.new = [arr |-> Len(mem.arrays) + 1, len |-> 0]])
           ELSE Becomes(p, mem, [P EXCEPT !.pc = "164"])
        /\ UNCHANGED <<file, out, probe, session, autoReplies>>

\* the end of an assignment to the map, or of a delete
MapAssign(p) ==
    LET P == race.procs[p]
        mem == race.mem
    IN  /\ At(p, "assign")
        /\ Becomes(p,
                   [mem EXCEPT !.map = IF P.del THEN EmptyStore
                                       ELSE [g \in {RaceGuild} |-> P.new]],
                   [P EXCEPT !.pc = P.next])
        /\ UNCHANGED <<file, out, probe, session, autoReplies>>

\* addAutoReply, the loop with its ownership check
AddScan(p) ==
    LET P == race.procs[p]
        mem == race.mem
        h == MapRead(mem, RaceGuild)
        list == Slice(mem, h)
        i == FindTrigger(list, 1, P.call.trigger)
    IN  /\ At(p, "164")
        /\ IF i = 0
           THEN Becomes(p, mem, [P EXCEPT !.pc = "179", !.h = h])
           ELSE IF NotAuthor(list[i], P.call.userID)
           THEN Becomes(p, mem, [P EXCEPT !.pc = "respond", !.h = h, !.i = i, !.ok = FALSE,
                                          !.message = ConflictMsg(P.call.userID)])
           ELSE Becomes(p, mem, [P EXCEPT !.pc = "171", !.h = h, !.i = i])
        /\ UNCHANGED <<file, out, probe, session, autoReplies>>

\* serverAutoReplies[guildID][i].Response = response
AddUpdateResponse(p) ==
    LET P == race.procs[p]
        mem == race.mem
        h == MapRead(mem, RaceGuild)
    IN  /\ At(p, "171")
        /\ IF P.i > h.len
           THEN Panics("index out of range")
           ELSE Becomes(p, [mem EXCEPT !.arrays[h.arr][P.i].Response = P.call.response],
                        [P EXCEPT !.pc = "172"])
        /\ UNCHANGED <<file, out, probe, session, autoReplies>>

\* serverAutoReplies[guildID][i].AuthorID = authorID
AddUpdateAuthor(p) ==
    LET P == race.procs[p]
        mem == race.mem
        h == MapRead(mem, RaceGuild)
    IN  /\ At(p, "172")
        /\ IF P.i > h.len
           THEN Panics("index out of range")
           ELSE Becomes(p, [mem EXCEPT !.arrays[h.arr][P.i].AuthorID = P.call.userID],
                        [P EXCEPT !.pc = "save", !.ok = TRUE, !.message = UpdatedMsg])
        /\ UNCHANGED <<file, out, probe, session, autoReplies>>

\* addAutoReply, the append: in place when the array has a free slot past
\* the length, into a new array otherwise; the assignment to the map starts
AddAppend(p) ==
    LET P == race.procs[p]
        mem == race.mem
        h == MapRead(mem, RaceGuild)
        elem == AutoReply(ToLower(P.call.trigger), P.call.response, P.call.userID)
        fits == h.arr /= 0 /\ h.len < Len(mem.arrays[h.arr])
        proc == [P EXCEPT !.pc = "assign", !.next = "save", !.del = FALSE,
                          !.ok = TRUE, !.message = CreatedMsg]
    IN  /\ At(p, "179")
        /\ IF fits
           THEN Becomes(p, [mem EXCEPT !.arrays[h.arr][h.len + 1] = elem],
                        [proc EXCEPT !.new = [arr |-> h.arr, len |-> h.len + 1]])
           ELSE Becomes(p, [mem EXCEPT !.arrays = Append(@, Slice(mem, h) \o <<elem>>)],
                        [proc EXCEPT !.new = [arr |-> Len(mem.arrays) + 1, len |-> h.len + 1]])
        /\ UNCHANGED <<file, out, probe, session, autoReplies>>

\* removeAutoReply, the nil check
RemoveCheck(p) ==
    LET P == race.procs[p]
    IN  /\ At(p, "190")
        /\ IF MapRead(race.mem, RaceGuild) = Nil
           THEN Becomes(p, race.mem, [P EXCEPT !.pc = "respond", !.ok = FALSE,
                                               !.message = NotFoundMsg])
           ELSE Becomes(p, race.mem, [P EXCEPT !.pc = "194"])
        /\ UNCHANGED <<file, out, probe, session, autoReplies>>

\* removeAutoReply, the loop with its ownership check
RemoveScan(p) ==
    LET P == race.procs[p]
        mem == race.mem
        h == MapRead(mem, RaceGuild)
        list == Slice(mem, h)
        i == FindTrigger(list, 1, P.call.trigger)
    IN  /\ At(p, "194")
        /\ IF i = 0
           THEN Becomes(p, mem, [P EXCEPT !.pc = "respond", !.h = h, !.ok = FALSE,
                                          !.message = NotFoundMsg])
           ELSE IF NotAuthor(list[i], P.call.userID)
           THEN Becomes(p, mem, [P EXCEPT !.pc = "respond", !.h = h, !.i = i, !.ok = FALSE,
                                          !.message = ConflictMsg(P.call.userID)])
           ELSE Becomes(p, mem, [P EXCEPT !.pc = "202", !.h = h, !.i = i])
        /\ UNCHANGED <<file, out, probe, session, autoReplies>>

\* removeAutoReply, append(list[:i], list[i+1:]...): the rules behind i
\* move down by one inside the array; the assignment to the map starts
RemoveShift(p) ==
    LET P == race.procs[p]
        mem == race.mem
        h == MapRead(mem, RaceGuild)
    IN  /\ At(p, "202")
        /\ IF P.i > h.len
           THEN Panics("slice bounds out of range")
           ELSE Becomes(p,
                        [mem EXCEPT !.arrays[h.arr] =
                            [k \in 1..Len(@) |-> IF k >= P.i /\ k < h.len THEN @[k + 1] ELSE @[k]]],
                        [P EXCEPT !.pc = "assign", !.next = "205", !.del = FALSE,
                                  !.new = [arr |-> h.arr, len |-> h.len - 1]])
        /\ UNCHANGED <<file, out, probe, session, autoReplies>>

\* removeAutoReply, the delete of an empty entry
RemoveCleanup(p) ==
    LET P == race.procs[p]
        h == MapRead(race.mem, RaceGuild)
        proc == [P EXCEPT !.ok = TRUE, !.message = RemovedMsg]
    IN  /\ At(p, "205")
        /\ IF h.len = 0
           THEN Becomes(p, race.mem, [proc EXCEPT !.pc = "assign", !.next = "save", !.del = TRUE])
           ELSE Becomes(p, race.mem, [proc EXCEPT !.pc = "save"])
        /\ UNCHANGED <<file, out, probe, session, autoReplies>>

\* saveAutoReplies, json.MarshalIndent: the document is made from the
\* store as it is now and kept in the local `data`
SaveMarshal(p) ==
    /\ At(p, "save")
    /\ Becomes(p, race.mem, [race.procs[p] EXCEPT !.pc = "150",
                                                  !.data = Marshal(View(race.mem))])
    /\ UNCHANGED <<file, out, probe, session, autoReplies>>

\* saveAutoReplies, os.WriteFile with a disk that works: the file becomes
\* the document marshalled before
SaveWrite(p) ==
    /\ At(p, "150")
    /\ Becomes(p, race.mem, [race.procs[p] EXCEPT !.pc = "respond"])
    /\ file' = Document(race.procs[p].data)
    /\ UNCHANGED <<out, probe, session, autoReplies>>

\* handleReplyCommand, from the return of the mutator to its own
Respond(p) ==
    LET P == race.procs[p]
    IN  /\ At(p, "respond")
        /\ Becomes(p, race.mem, [P EXCEPT !.pc = "done"])
        /\ out' = IF P.call.kind = "remove"
                  THEN Responded(RaceGuild, "removeAutoReply", P.ok,
                                 removeContent(P.ok, P.message), <<>>,
                                 removeFlags(P.ok, P.message))
                  ELSE IF P.ok
                  THEN Responded(RaceGuild, "addAutoReply", TRUE, <<>>,
                                 <<SetUpEmbed(P.call.trigger, P.call.response)>>, Ephemeral)
                  ELSE Responded(RaceGuild, "addAutoReply", FALSE,
                                 addFailContent(P.message), <<>>, addFailFlags(P.message))
        /\ UNCHANGED <<file, probe, session, autoReplies>>

\* messageCreate, the lookup of the guild's rules
MsgLookup(p) ==
    LET P == race.procs[p]
        h == MapRead(race.mem, RaceGuild)
    IN  /\ At(p, "609")
        /\ IF h.len = 0 \/ ToLower(TrimSpace(P.call.trigger)) = <<>>
           THEN Becomes(p, race.mem, [P EXCEPT !.pc = "deliver", !.h = h])
           ELSE Becomes(p, race.mem, [P EXCEPT !.pc = "626", !.h = h, !.i = 1])
        /\ UNCHANGED <<file, out, probe, session, autoReplies>>

\* messageCreate, one turn of the loop over the header it looked up
MsgScan(p) ==
    LET P == race.procs[p]
        reply == race.mem.arrays[P.h.arr][P.i]
    IN  /\ At(p, "626")
        /\ IF P.i > P.h.len
           THEN Becomes(p, race.mem, [P EXCEPT !.pc = "deliver"])
           ELSE IF containsWholeWord(ToLower(TrimSpace(P.call.trigger)), reply.Trigger)
           THEN Becomes(p, race.mem, [P EXCEPT !.pc = "deliver", !.seen = Append(@, reply),
                                               !.sends = sendsFor(reply, FALSE)])
           ELSE Becomes(p, race.mem, [P EXCEPT !.i = @ + 1, !.seen = Append(@, reply)])
        /\ UNCHANGED <<file, out, probe, session, autoReplies>>

\* messageCreate returns
MsgDeliver(p) ==
    LET P == race.procs[p]
    IN  /\ At(p, "deliver")
        /\ Becomes(p, race.mem, [P EXCEPT !.pc = "done"])
        /\ out' = [Delivered(FALSE, RaceGuild, P.call.trigger, P.sends)
                      EXCEPT !.Compared = Len(P.seen)]
        /\ UNCHANGED <<file, probe, session, autoReplies>>

\* The runtime sees the map written by p while q writes or reads it, and
\* stops the process
MapFault(p, q) ==
    /\ race.fault = "none"
    /\ p /= q
    /\ Writing(p)
    /\ \/ /\ Writing(q)
          /\ Panics("concurrent map writes")
       \/ /\ race.procs[q].pc \in MapReadingLines
          /\ Panics("concurrent map read and map write")
    /\ UNCHANGED <<file, out, probe, session, autoReplies>>

NextRace ==
    \E p \in Procs :
        \/ AddInit(p) \/ AddScan(p) \/ AddUpdateResponse(p) \/ AddUpdateAuthor(p)
        \/ AddAppend(p) \/ MapAssign(p)
        \/ RemoveCheck(p) \/ RemoveScan(p) \/ RemoveShift(p) \/ RemoveCleanup(p)
        \/ SaveMarshal(p) \/ SaveWrite(p) \/ Respond(p)
        \/ MsgLookup(p) \/ MsgScan(p) \/ MsgDeliver(p)
        \/ \E q \in Procs : MapFault(p, q)

SpecRace == InitRace /\ [][NextRace]_vars

----------------------------------------------------------------------------
(* Words of a text, stated by position, for the properties below.          *)

\* text[a..b] is a whitespace-separated token of text
IsToken(text, a, b) ==
    /\ 1 <= a /\ a <= b /\ b <= Len(text)
    /\ \A k \in a..b : ~IsSpace(text[k])
    /\ a = 1 \/ IsSpace(text[a - 1])
    /\ b = Len(text) \/ IsSpace(text[b + 1])

\* word is what remains of the token text[a..b] once the punctuation at
\* its two ends is taken off
IsStripped(text, a, b, word) ==
    \/ /\ \A k \in a..b : text[k] \in Cutset
       /\ word = <<>>
    \/ \E p \in a..b, q \in a..b :
          /\ p <= q
          /\ \A k \in a..(p - 1) : text[k] \in Cutset
          /\ \A k \in (q + 1)..b : text[k] \in Cutset
          /\ text[p] \notin Cutset /\ text[q] \notin Cutset
          /\ word = SubSeq(text, p, q)

\* the punctuation-stripped tokens of text
Words(text) ==
    {w \in {SubSeq(text, p, q) : p \in 1..(Len(text) + 1), q \in 0..Len(text)} :
        \E a \in 1..Len(text), b \in 1..Len(text) :
            IsToken(text, a, b) /\ IsStripped(text, a, b, w)}

\* trigger occurs in text at position a
OccursAt(text, a, trigger) ==
    /\ a + Len(trigger) - 1 <= Len(text)
    /\ SubSeq(text, a, a + Len(trigger) - 1) = trigger

----------------------------------------------------------------------------
(* C3.  For every lower-cased text and every trigger, containsWholeWord is *)
(* true exactly when some whitespace-separated token of the text, with the *)
(* punctuation .,!?;:"'()[]{}* taken off its two ends, equals the trigger; *)
(* a trigger that is only part of a longer token does not match.           *)
WholeWordMatch ==
    probe.done => (probe.result <=> probe.trigger \in Words(probe.text))

\* A call that answered no for a trigger that occurs inside a longer token
WholeWordWitness ==
    /\ probe.done
    /\ ~probe.result
    /\ probe.trigger /= <<>>
    /\ \E a \in 1..Len(probe.text) : OccursAt(probe.text, a, probe.trigger)

----------------------------------------------------------------------------
(* Shorthands for the properties of the handlers.                          *)

Rules(guildID) == Lookup(serverAutoReplies, guildID)

\* some rule of the guild has a trigger equal to `trigger`, letter case aside
HasRuleFor(guildID, trigger) ==
    \E k \in 1..Len(Rules(guildID)) : EqualFold(Rules(guildID)[k].Trigger, trigger)

\* the options name `name` with the value `value`
Carries(options, name, value) ==
    \E k \in 1..Len(options) : options[k] = Option(name, value)

\* the options name `name`
Names(options, name) == \E k \in 1..Len(options) : options[k].Name = name

\* this step is the /reply command of userID in guildID with these options
Replied(guildID, userID, options) ==
    HandleReplyCommand(guildID, userID, options, "written")

----------------------------------------------------------------------------
(* C1.  Starting from the empty store, after any sequence of adds and      *)
(* removes no guild's rule list holds two rules whose triggers are equal   *)
(* under case-insensitive comparison.                                      *)
NoDuplicateTriggers ==
    \A g \in DOMAIN serverAutoReplies :
        \A i \in 1..Len(serverAutoReplies[g]), j \in 1..Len(serverAutoReplies[g]) :
            i < j => ~EqualFold(serverAutoReplies[g][i].Trigger,
                                serverAutoReplies[g][j].Trigger)

(* C2.  While a rule has a non-empty author A, every add or remove on its  *)
(* trigger (letter case aside) in that guild by anyone else, the empty     *)
(* user ID included, fails with the ownership-conflict message and leaves  *)
(* the store as it was.                                                    *)
OwnerOnly ==
    [][\A guildID \in Guilds, userID \in UserIDs, options \in OptionLists :
          ( /\ Replied(guildID, userID, options)
            /\ out'.called /= "none"
            /\ \E k \in 1..Len(Rules(guildID)) :
                  /\ EqualFold(Rules(guildID)[k].Trigger, StringValue(options[1]))
                  /\ Rules(guildID)[k].AuthorID \notin {"", userID} )
          => /\ ~out'.ok
             /\ out'.Content = ConflictMsg(userID)
             /\ serverAutoReplies' = serverAutoReplies]_vars

----------------------------------------------------------------------------
(* C4.  For each message, messageCreate applies at most one rule, the      *)
(* first in the guild's list order whose trigger matches: whatever it      *)
(* sends carries that rule's response, also when the reply with a message  *)
(* reference fails and the plain message is sent in its place.             *)

\* the rules of the guild whose trigger is a word of the lower-cased text
Hits(guildID, text) ==
    {k \in 1..Len(Rules(guildID)) : Rules(guildID)[k].Trigger \in Words(ToLower(text))}

Least(S) == CHOOSE k \in S : \A n \in S : k <= n

FirstMatchOnly ==
    out.handler = "messageCreate" =>
        LET hits == Hits(out.GuildID, out.Text)
        IN  /\ Len(out.Sends) <= 2
            /\ \A n \in 1..Len(out.Sends) :
                  /\ hits /= {}
                  /\ out.Sends[n].text = Rules(out.GuildID)[Least(hits)].Response
            /\ Len(out.Sends) >= 1 => out.Sends[1].call = "ChannelMessageSendReply"
            /\ Len(out.Sends) = 2 => out.Sends[2].call = "ChannelMessageSend"

\* A message that two rules with different responses match, answered with
\* the reply and, that having failed, with the plain message
FirstMatchWitness ==
    /\ out.handler = "messageCreate"
    /\ Len(out.Sends) = 2
    /\ \E k \in Hits(out.GuildID, out.Text), n \in Hits(out.GuildID, out.Text) :
          /\ k < n
          /\ Rules(out.GuildID)[k].Response /= Rules(out.GuildID)[n].Response

----------------------------------------------------------------------------
(* C5.  After a successful add of trigger T, given in any letter case, in  *)
(* guild S, a message in S whose text holds T in any letter case as a      *)
(* whole word matches that rule.  ("Holds T as a whole word": one of the   *)
(* text's punctuation-stripped tokens equals T, letter case aside.)        *)
(* Letter case is what strings.EqualFold sets aside, the comparison        *)
(* addAutoReply itself uses to find the rule of a trigger.                 *)

ContentAlphabet == {"I", "i", "Idot", "o", "S", "s", "!", " "}

ProbeContents == SeqsUpTo(ContentAlphabet, MaxTrigLen)

\* each of these texts with each of its words
ProbeWords == UNION {{<<content, w>> : w \in Words(content)} : content \in ProbeContents}

AddedTriggerMatches ==
    (out.handler = "handleReplyCommand" /\ out.called = "addAutoReply" /\ out.ok) =>
        LET T == out.Embeds[1].Trigger
            R == out.Embeds[1].Response
        IN  \A pair \in ProbeWords :
                EqualFold(pair[2], T) =>
                    \E k \in 1..Len(Rules(out.GuildID)) :
                        /\ Rules(out.GuildID)[k].Response = R
                        /\ containsWholeWord(ToLower(TrimSpace(pair[1])),
                                             Rules(out.GuildID)[k].Trigger)

----------------------------------------------------------------------------
(* C6.  Calling addAutoReply twice in a row with the same guild, trigger,  *)
(* response and author leaves the store as one call leaves it: the second  *)
(* call updates in place and the rule count does not grow.                 *)
AddTwiceIsAddOnce ==
    [][\A guildID \in Guilds, userID \in UserIDs, options \in OptionLists :
          (Replied(guildID, userID, options) /\ out'.called = "addAutoReply" /\ out'.ok)
          => LET again == addAutoReply(serverAutoReplies', StringValue(options[1]),
                                       optResponse(options), userID, guildID)
             IN  again.ok /\ again.store = serverAutoReplies']_vars

----------------------------------------------------------------------------
(* C7.  A reply command with mode=remove removes the rule (ownership       *)
(* permitting) whether or not a response came with it; it never adds or    *)
(* updates a rule.                                                         *)
RemoveModeRemoves ==
    [][\A guildID \in Guilds, userID \in UserIDs, options \in OptionLists :
          (Replied(guildID, userID, options) /\ Carries(options, "mode", "remove"))
          => out'.called = "removeAutoReply"]_vars

----------------------------------------------------------------------------
(* C8.  The response to a reply command is public exactly when the outcome *)
(* is an ownership conflict; success, a missing response, not-found and    *)
(* the rejection in direct messages are private (ephemeral).               *)
PublicIffConflict ==
    out.handler = "handleReplyCommand" =>
        LET conflict == /\ out.called /= "none" /\ ~out.ok
                        /\ \E u \in UserIDs : out.Content = ConflictMsg(u)
            notFound == /\ out.called = "removeAutoReply" /\ ~out.ok
                        /\ out.Content = <<"X ">> \o NotFoundMsg
            success  == out.called /= "none" /\ out.ok
            invalid  == out.called = "none" /\ out.Content = NoResponseContent
            direct   == out.called = "none" /\ out.Content = DMOnlyContent
        IN  /\ conflict \/ notFound \/ success \/ invalid \/ direct
            /\ conflict => out.Flags = {}
            /\ (notFound \/ success \/ invalid \/ direct) => out.Flags = Ephemeral
            /\ out.Flags \in {{}, Ephemeral}

\* A remove refused for ownership, answered in public
PublicConflictWitness ==
    /\ out.handler = "handleReplyCommand"
    /\ out.called = "removeAutoReply" /\ ~out.ok
    /\ out.Flags = {}

----------------------------------------------------------------------------
(* C9.  A reply command in add mode with an empty or missing response is   *)
(* rejected with a private validation error before addAutoReply is called: *)
(* store and file stay as they were.                                       *)
AddNeedsResponse ==
    [][\A guildID \in Guilds, userID \in UserIDs, options \in OptionLists :
          ( /\ Replied(guildID, userID, options)
            /\ ~Carries(options, "mode", "remove")
            /\ ~Names(options, "response") )
          => /\ out'.called = "none"
             /\ out'.Content = NoResponseContent
             /\ out'.Flags = Ephemeral
             /\ UNCHANGED <<serverAutoReplies, file>>]_vars

----------------------------------------------------------------------------
(* C10.  removeAutoReply for a trigger that no rule of the guild equals,   *)
(* letter case aside (a guild with no entry included), returns ok=false    *)
(* with the not-found message and changes neither the store nor the file.  *)
NotFoundChangesNothing ==
    /\ [](\A guildID \in GuildIDs, userID \in UserIDs, trigger \in TriggerInputs :
            ~HasRuleFor(guildID, trigger) =>
                LET r == removeAutoReply(serverAutoReplies, trigger, userID, guildID)
                IN  ~r.ok /\ r.message = NotFoundMsg /\ ~r.save
                        /\ r.store = serverAutoReplies)
    /\ [][( /\ out'.called = "removeAutoReply" /\ ~out'.ok
            /\ out'.Content = <<"X ">> \o NotFoundMsg )
          => UNCHANGED <<serverAutoReplies, file>>]_vars

\* A remove that found nothing, with rules in the store and a cut-off file
NotFoundWitness ==
    /\ out.called = "removeAutoReply" /\ ~out.ok
    /\ out.Content = <<"X ">> \o NotFoundMsg
    /\ serverAutoReplies /= EmptyStore
    /\ file = Truncated

----------------------------------------------------------------------------
(* C11.  When a rule's author, or anyone if the rule has no author, calls  *)
(* removeAutoReply on an existing trigger, the call succeeds, exactly that *)
(* rule leaves the list, and afterwards no rule of the guild answers to    *)
(* that trigger, so no message matches it.                                 *)

\* the list without its k-th element
Without(list, k) == SubSeq(list, 1, k - 1) \o SubSeq(list, k + 1, Len(list))

RemoveByAuthorRemoves ==
    [][\A guildID \in Guilds, userID \in UserIDs, options \in OptionLists :
          \A k \in 1..Len(Rules(guildID)) :
              ( /\ Replied(guildID, userID, options)
                /\ out'.called = "removeAutoReply"
                /\ EqualFold(Rules(guildID)[k].Trigger, StringValue(options[1]))
                /\ Rules(guildID)[k].AuthorID \in {"", userID} )
              => /\ out'.ok
                 /\ Lookup(serverAutoReplies', guildID) = Without(Rules(guildID), k)
                 /\ \A n \in 1..Len(Lookup(serverAutoReplies', guildID)) :
                       ~EqualFold(Lookup(serverAutoReplies', guildID)[n].Trigger,
                                  StringValue(options[1]))]_vars

----------------------------------------------------------------------------
(* C12.  After every completed add or remove, successful or failed, no     *)
(* guild key of the store maps to an empty rule list: removing a guild's   *)
(* last rule deletes the guild's entry.                                    *)
NoEmptyGuildEntry ==
    \A g \in DOMAIN serverAutoReplies : Len(serverAutoReplies[g]) > 0

\* A remove that took the last rule of the guild
LastRuleRemovedWitness ==
    /\ out.called = "removeAutoReply" /\ out.ok
    /\ out.GuildID \notin DOMAIN serverAutoReplies

----------------------------------------------------------------------------
(* C13.  Every trigger held in the store is lower-case, after loading at   *)
(* startup and after any sequence of adds and removes: each stored rule's  *)
(* trigger equals its own lower-cased form.                                *)
StoredTriggersLowerCase ==
    \A g \in DOMAIN serverAutoReplies :
        \A k \in 1..Len(serverAutoReplies[g]) :
            serverAutoReplies[g][k].Trigger = ToLower(serverAutoReplies[g][k].Trigger)

----------------------------------------------------------------------------
(* C14.  After every successful add, update or remove whose save does not  *)
(* fail, the file holds the whole store: loading it gives a store equal to *)
(* the one in memory (same guilds, same rules in the same order, same      *)
(* trigger, response and author), and author_id is written exactly for the *)
(* rules that have an author.                                              *)
SavedDocumentReloads ==
    ( /\ out.handler = "handleReplyCommand"
      /\ out.called /= "none" /\ out.ok
      /\ out.Log = <<>> )
    => /\ file.kind = "document"
       /\ loadAutoReplies(file).store = serverAutoReplies
       /\ DOMAIN file.doc = DOMAIN serverAutoReplies
       /\ \A g \in DOMAIN serverAutoReplies :
             /\ Len(file.doc[g]) = Len(serverAutoReplies[g])
             /\ \A k \in 1..Len(serverAutoReplies[g]) :
                   "author_id" \in DOMAIN file.doc[g][k]
                       <=> serverAutoReplies[g][k].AuthorID /= ""

\* A save, not failed, of a store that holds a rule with an author and a
\* rule without one
SavedWitness ==
    /\ out.handler = "handleReplyCommand"
    /\ out.called /= "none" /\ out.ok
    /\ out.Log = <<>>
    /\ \E k \in 1..Len(Rules("g1")), n \in 1..Len(Rules("g1")) :
          Rules("g1")[k].AuthorID = "" /\ Rules("g1")[n].AuthorID = "u1"

----------------------------------------------------------------------------
(* C15.  When saveAutoReplies fails, the mutation made in memory is kept,  *)
(* the call still returns ok=true and no second write is made: the file is *)
(* the old one or a cut-off one; it lags the store until a later mutation  *)
(* is saved, after which the file holds the store again.                   *)

\* what the mutator that the command calls returns
Mutation(store, guildID, userID, options) ==
    IF LowerWord(optMode(options)) = "remove"
    THEN removeAutoReply(store, StringValue(options[1]), userID, guildID)
    ELSE addAutoReply(store, StringValue(options[1]), optResponse(options), userID, guildID)

FailedSaveKeepsMutation ==
    /\ []((out.called /= "none" /\ out.ok /\ out.Log = <<>>)
            => file = Document(Marshal(serverAutoReplies)))
    /\ [][out'.Log = SaveErrorLog
            => /\ out'.called /= "none" /\ out'.ok
               /\ file' \in {file, Truncated}
               /\ \E userID \in UserIDs, options \in DiskOptionLists :
                     LET r == Mutation(serverAutoReplies, out'.GuildID, userID, options)
                     IN  r.ok /\ r.save /\ serverAutoReplies' = r.store]_vars

\* A save that failed on opening the file: the store has a rule the file
\* does not have
FailedSaveWitness ==
    /\ out.Log = SaveErrorLog
    /\ out.called = "addAutoReply" /\ out.ok
    /\ file.kind = "document"
    /\ file /= Document(Marshal(serverAutoReplies))

----------------------------------------------------------------------------
(* C17.  At every point in time, also when a save fails partway, the file  *)
(* is a complete serialization of some store, never a cut-off one.         *)
NeverHalfWritten == file.kind /= "truncated"

----------------------------------------------------------------------------
(* C16.  After loadAutoReplies, if the file is absent, or present and      *)
(* malformed (not JSON, or JSON in which the value of some guild has the   *)
(* wrong shape), the store is empty.                                       *)
MalformedLoadsEmpty ==
    (out.handler = "loadAutoReplies" /\ file.kind \in {"absent", "truncated", "misshapen"})
        => serverAutoReplies = EmptyStore

----------------------------------------------------------------------------
(* Shorthands for the properties of handlers in flight.                    *)

IsMutator(call) == call.kind \in {"add", "remove"}

\* what the call returns when it runs alone, from its first line to its last
Alone(store, call) ==
    IF call.kind = "add"
    THEN addAutoReply(store, call.trigger, call.response, call.userID, RaceGuild)
    ELSE removeAutoReply(store, call.trigger, call.userID, RaceGuild)

IsPrefix(s, t) == Len(s) <= Len(t) /\ SubSeq(t, 1, Len(s)) = s

----------------------------------------------------------------------------
(* C18.  Mutations are serialized: when two handlers have run addAutoReply *)
(* or removeAutoReply at once on the same guild, the store and the values  *)
(* the two calls returned are those of the two calls run one after the     *)
(* other in some order: no update is lost, no trigger is there twice.      *)
MutationsSerialized ==
    (\A p \in Procs : race.procs[p].pc = "done" /\ IsMutator(race.procs[p].call))
    => \E p \in Procs, q \in Procs :
          /\ p /= q
          /\ LET first == Alone(race.start, race.procs[p].call)
                 second == Alone(first.store, race.procs[q].call)
             IN  /\ serverAutoReplies = second.store
                 /\ race.procs[p].ok = first.ok
                 /\ race.procs[q].ok = second.ok

----------------------------------------------------------------------------
(* C19.  Every scan by messageCreate reads a rule list equal to the        *)
(* guild's list at one instant between mutations: with one mutator in      *)
(* flight, the rules the scan has read are the list before the mutation or *)
(* the list after it (up to the rule at which the scan stopped), never a   *)
(* list in between.                                                        *)
ScanSeesOneInstant ==
    \A p \in Procs, q \in Procs :
        ( /\ race.procs[p].call.kind = "message"
          /\ race.procs[p].pc \in {"deliver", "done"}
          /\ IsMutator(race.procs[q].call) )
        => \E list \in {Lookup(race.start, RaceGuild),
                        Lookup(Alone(race.start, race.procs[q].call).store, RaceGuild)} :
              /\ IsPrefix(race.procs[p].seen, list)
              /\ race.procs[p].sends = <<>> => race.procs[p].seen = list

----------------------------------------------------------------------------
(* C20.  Every call of addAutoReply or removeAutoReply returns and the     *)
(* process is never stopped, also with several handlers in flight: no two  *)
(* handlers are inside an assignment to the map at once, and the runtime   *)
(* never finds the map written while it is read or written elsewhere.      *)
NoAbortNoOverlap ==
    /\ race.fault = "none"
    /\ \A p \in Procs, q \in Procs : p /= q => ~(Writing(p) /\ Writing(q))

----------------------------------------------------------------------------
(* C21.  messageCreate sends nothing when the author of the message is a   *)
(* bot, when the message has no guild (a direct message), or when its      *)
(* trimmed, lower-cased content is empty; in the last case it returns      *)
(* before it compares the content with any rule.                           *)
DroppedMessagesGetNoReply ==
    out.handler = "messageCreate" =>
        /\ (out.Bot \/ out.GuildID = "" \/ ToLower(TrimSpace(out.Text)) = <<>>)
              => out.Sends = <<>>
        /\ ToLower(TrimSpace(out.Text)) = <<>> => out.Compared = 0

\* A user's message of blanks only, in a guild that has rules
BlankMessageWitness ==
    /\ out.handler = "messageCreate"
    /\ ~out.Bot /\ out.GuildID = "g1"
    /\ out.Text = <<" ">>
    /\ Len(Rules("g1")) > 0

----------------------------------------------------------------------------
(* C22.  A rule whose trigger is one word and a rule whose trigger is a    *)
(* phrase of several words ("hi" and "hi there") can both be held by one   *)
(* guild; both match a message that contains the phrase, and only the one  *)
(* that comes first in the stored order is sent.                           *)

\* t is a word or several words with one blank between them, with no
\* punctuation
IsPhrase(t) ==
    /\ t /= <<>>
    /\ \A k \in 1..Len(t) : t[k] \notin Cutset
    /\ ~IsSpace(t[1]) /\ ~IsSpace(t[Len(t)])
    /\ \A k \in 1..(Len(t) - 1) : ~(IsSpace(t[k]) /\ IsSpace(t[k + 1]))

\* text holds the phrase t from one word boundary to another
HoldsPhrase(text, t) ==
    \E a \in 1..Len(text) :
        /\ OccursAt(text, a, t)
        /\ a = 1 \/ IsSpace(text[a - 1])
        /\ a + Len(t) - 1 = Len(text) \/ IsSpace(text[a + Len(t)])

\* the rules of the guild whose trigger is a word of the text, or a phrase
\* the text holds
PhraseHits(guildID, text) ==
    Hits(guildID, text) \cup
    {k \in 1..Len(Rules(guildID)) :
        /\ IsPhrase(Rules(guildID)[k].Trigger)
        /\ HoldsPhrase(ToLower(TrimSpace(text)), Rules(guildID)[k].Trigger)}

WordAndPhraseBothMatch ==
    (out.handler = "messageCreate" /\ ~out.Bot /\ PhraseHits(out.GuildID, out.Text) /= {})
    => /\ out.Sends /= <<>>
       /\ \A n \in 1..Len(out.Sends) :
             out.Sends[n].text =
                 Rules(out.GuildID)[Least(PhraseHits(out.GuildID, out.Text))].Response

----------------------------------------------------------------------------
(* C30.  addAutoReply stores any trigger text as it is, untrimmed.  A rule *)
(* whose stored trigger begins or ends with one of the stripped            *)
(* punctuation characters, or holds a blank, is never the rule applied to  *)
(* a message; a rule with the empty trigger is applied to every message    *)
(* that holds a token of punctuation only (unless a rule before it is).    *)

\* the index of the rule messageCreate applied; 0 when it applied none
Applied == IF out.Sends = <<>> THEN 0 ELSE out.Compared

\* the trigger can equal no punctuation-stripped token
Unmatchable(t) ==
    /\ t /= <<>>
    /\ \/ t[1] \in Cutset
       \/ t[Len(t)] \in Cutset
       \/ \E k \in 1..Len(t) : IsSpace(t[k])

\* text has a token made of punctuation only
HasPunctuationToken(text) ==
    \E a \in 1..Len(text), b \in 1..Len(text) :
        IsToken(text, a, b) /\ \A k \in a..b : text[k] \in Cutset

UntrimmedTriggers ==
    /\ (out.called = "addAutoReply" /\ out.ok)
          => \E k \in 1..Len(Rules(out.GuildID)) :
                Rules(out.GuildID)[k].Trigger = ToLower(out.Embeds[1].Trigger)
    /\ out.handler = "messageCreate"
          => \A k \in 1..Len(Rules(out.GuildID)) :
                /\ Unmatchable(Rules(out.GuildID)[k].Trigger) => Applied /= k
                /\ ( /\ Rules(out.GuildID)[k].Trigger = <<>>
                     /\ HasPunctuationToken(ToLower(TrimSpace(out.Text))) )
                   => (Applied >= 1 /\ Applied <= k)

\* The message "o !" answered by the rule with the empty trigger, passing
\* over the rule "o!"
EmptyTriggerWitness ==
    /\ out.handler = "messageCreate"
    /\ out.Text = <<"o", " ", "!">>
    /\ Applied = 2
    /\ Rules("g1")[1].Trigger = <<"o", "!">>
    /\ Rules("g1")[2].Trigger = <<>>

----------------------------------------------------------------------------
(* C23.  Rules belong to one guild: an add or a remove in guild G leaves   *)
(* the rule list of every other guild as it was, the same trigger may be   *)
(* held by two guilds with different authors and responses, and a message  *)
(* in guild G is answered only with a rule stored under G.                 *)
RulesArePerGuild ==
    /\ [](out.handler = "messageCreate" =>
            \A n \in 1..Len(out.Sends) :
                \E k \in Hits(out.GuildID, out.Text) :
                    Rules(out.GuildID)[k].Response = out.Sends[n].text)
    /\ [][\A g \in GuildPair :
            (out'.handler = "handleReplyCommand" /\ g /= out'.GuildID)
                => Lookup(serverAutoReplies', g) = Lookup(serverAutoReplies, g)]_vars

\* A message in g2 answered with the rule of g2 while g1 holds a rule for
\* the same trigger with another author and another response
TwoGuildsWitness ==
    /\ out.handler = "messageCreate" /\ out.GuildID = "g2"
    /\ out.Sends = <<Send("ChannelMessageSendReply", "yo")>>
    /\ Rules("g1") = <<AutoReply(<<"o">>, "hey", "u1")>>
    /\ Rules("g2") = <<AutoReply(<<"o">>, "yo", "u2")>>

----------------------------------------------------------------------------
(* C24.  In every server-scoped build, a message of a user in a guild      *)
(* whose text holds a stored trigger of that guild as a whole word is      *)
(* given to the matcher and in the end answered with that rule's response  *)
(* (unless the rule is removed while the message waits).                   *)

\* the message waits in the session
Pending(content) == session.pending = <<MessageEvent(content)>>

\* messageCreate has answered a message of this text
Answered(content) ==
    /\ out.handler = "messageCreate"
    /\ out.Text = content
    /\ out.Sends /= <<>>
    /\ \E k \in Hits("g1", content) : out.Sends[1].text = Rules("g1")[k].Response

MatchedMessageAnswered ==
    \A content \in BuildContents :
        (Pending(content) /\ Hits("g1", content) /= {})
            ~> (Answered(content) \/ (Pending(content) /\ Hits("g1", content) = {}))

----------------------------------------------------------------------------
(* C25.  In the global-scope variant a rule added from any guild or from a *)
(* direct message is held in the one list and applied to the messages of   *)
(* users everywhere: a message is answered exactly when the stored         *)
(* (lower-cased) trigger of some rule is contained anywhere in its         *)
(* lower-cased, trimmed text, with the first such rule of the list and no  *)
(* other.                                                                  *)

\* the rules of the list whose trigger occurs somewhere in the text
GlobalHits(text) ==
    {k \in 1..Len(autoReplies) :
        \E a \in 1..Len(text) : OccursAt(text, a, autoReplies[k].Trigger)}

GlobalRulesFireOnSubstring ==
    /\ (out.called = "addAutoReply" /\ out.ok)
          => \E k \in 1..Len(autoReplies) :
                /\ autoReplies[k].Trigger = ToLower(out.Embeds[1].Trigger)
                /\ autoReplies[k].Response = out.Embeds[1].Response
    /\ out.handler = "messageCreate"
          => LET hits == GlobalHits(ToLower(TrimSpace(out.Text)))
             IN  IF out.Bot \/ hits = {}
                 THEN out.Sends = <<>>
                 ELSE /\ out.Sends /= <<>>
                      /\ \A n \in 1..Len(out.Sends) :
                            out.Sends[n].text = autoReplies[Least(hits)].Response

\* A message in the guild g2 answered with a rule that u1 added in a
\* direct message, its trigger being a part of a longer word of the text
GlobalSubstringWitness ==
    /\ out.handler = "messageCreate" /\ out.GuildID = "g2"
    /\ out.Text = <<"i", "o">>
    /\ out.Sends /= <<>>
    /\ autoReplies[out.Compared].Trigger = <<"o">>
    /\ autoReplies[out.Compared].AuthorID = "u1"

----------------------------------------------------------------------------
(* C26.  The rule list of a guild keeps the order of insertion under every *)
(* operation: a new rule goes to the end; an update in place changes       *)
(* neither the position of the rule, nor its stored trigger, nor the       *)
(* length of the list; a removal takes out exactly one rule and keeps the  *)
(* order of the others; a call that fails changes nothing.                 *)
InsertionOrderKept ==
    [][(out'.handler = "handleReplyCommand" /\ out'.called /= "none") =>
          LET old == Rules(out'.GuildID)
              new == Lookup(serverAutoReplies', out'.GuildID)
          IN  IF ~out'.ok
              THEN new = old
              ELSE IF out'.called = "removeAutoReply"
              THEN \E k \in 1..Len(old) : new = Without(old, k)
              ELSE \/ /\ Len(new) = Len(old) + 1
                      /\ SubSeq(new, 1, Len(old)) = old
                      /\ new[Len(new)].Trigger = ToLower(out'.Embeds[1].Trigger)
                      /\ new[Len(new)].Response = out'.Embeds[1].Response
                   \/ /\ Len(new) = Len(old)
                      /\ \E k \in 1..Len(old) :
                            /\ \A n \in 1..Len(old) : n /= k => new[n] = old[n]
                            /\ new[k].Trigger = old[k].Trigger
                            /\ EqualFold(old[k].Trigger, out'.Embeds[1].Trigger)
                            /\ new[k].Response = out'.Embeds[1].Response]_vars

\* An update in place of the first of two rules
UpdateInPlaceWitness ==
    /\ out.called = "addAutoReply" /\ out.ok
    /\ out.Embeds[1].Trigger = <<"o">>
    /\ Len(Rules("g1")) = 2
    /\ Rules("g1")[1].Trigger = <<"o">>
    /\ Rules("g1")[2].Trigger = <<"i">>

----------------------------------------------------------------------------
(* C27.  A rule with no author can be updated and removed by any caller:   *)
(* addAutoReply on its trigger succeeds as an update that writes the       *)
(* caller's response and the caller's ID into that rule (so the rule gets  *)
(* an owner with the first caller of non-empty ID), and removeAutoReply on *)
(* its trigger succeeds and takes that rule out.                           *)
UnownedRuleOpenToAll ==
    \A g \in Guilds :
        \A k \in 1..Len(Rules(g)) :
            Rules(g)[k].AuthorID = "" =>
                \A userID \in UserIDs :
                    LET t == Rules(g)[k].Trigger
                        a == addAutoReply(serverAutoReplies, t, "new", userID, g)
                        r == removeAutoReply(serverAutoReplies, t, userID, g)
                    IN  /\ a.ok /\ a.message = UpdatedMsg
                        /\ a.store[g][k] = AutoReply(t, "new", userID)
                        /\ r.ok /\ r.message = RemovedMsg
                        /\ Lookup(r.store, g) = Without(Rules(g), k)

----------------------------------------------------------------------------
(* C29.  Ownership ends with the rule: once the author has removed a rule, *)
(* an add of the same trigger by any other user succeeds and creates a new *)
(* rule owned by that user, after which the add and the remove of the      *)
(* first author on that trigger fail with the ownership conflict.          *)
OwnershipEndsWithRule ==
    \A g \in Guilds :
        \A k \in 1..Len(Rules(g)) :
            \A other \in UserIDs \ {"", Rules(g)[k].AuthorID} :
                Rules(g)[k].AuthorID /= "" =>
                    LET t       == Rules(g)[k].Trigger
                        author  == Rules(g)[k].AuthorID
                        removed == removeAutoReply(serverAutoReplies, t, author, g)
                        added   == addAutoReply(removed.store, t, "new", other, g)
                        list    == Lookup(added.store, g)
                        again   == addAutoReply(added.store, t, "mine", author, g)
                        away    == removeAutoReply(added.store, t, author, g)
                    IN  /\ removed.ok
                        /\ added.ok /\ added.message = CreatedMsg
                        /\ list /= <<>> /\ list[Len(list)] = AutoReply(t, "new", other)
                        /\ ~again.ok /\ again.message = ConflictMsg(author)
                        /\ again.store = added.store
                        /\ ~away.ok /\ away.message = ConflictMsg(author)
                        /\ away.store = added.store

----------------------------------------------------------------------------
(* C28.  When two mutations run at once and both are saved, then once both *)
(* handlers have finished the file holds the store as it is in memory: a   *)
(* save that marshalled an older state of the store never overwrites the   *)
(* file written for a newer one.                                           *)
LastSaveIsNewest ==
    ( /\ race.fault = "none"
      /\ \A p \in Procs :
            /\ race.procs[p].pc = "done"
            /\ IsMutator(race.procs[p].call)
            /\ race.procs[p].ok )
    => file = Document(Marshal(serverAutoReplies))

====
